---- MODULE Spec2Model ----
(***************************************************************************)
(* Model of the text editing buffer of nunitius                            *)
(* (rewrite/sender/src/editor.rs): the document (buffer), the cursor       *)
(* (line, column), the width, and the public operations add, backspace,    *)
(* enter, move_left, move_right, move_up, move_down and resize.            *)
(*                                                                         *)
(* Lines are sequences of one-character strings.  Line and column indices  *)
(* are 0-based as in the source; TLA+ sequences are 1-based, so the line   *)
(* at index l is buffer[l + 1].  Only one-byte characters are modelled, so *)
(* String::len (bytes) and the character count agree.  A Rust panic (index *)
(* out of range, String::insert/remove/split_off past the end) ends the    *)
(* program: the operation leaves the state as it was and sets panicked.    *)
(***************************************************************************)
EXTENDS Integers, Sequences, FiniteSets, TLC

\* ------------------------------------------------------------------ bounds

\* Largest width given to Editor::new and resize.
MaxWidth == 3

\* Largest number of characters held by the document.
MaxChars == 3

\* Largest number of lines of the document: enter, and an add whose re-wrap
\* adds lines, are taken only while the document stays within it.
MaxLines == 3

\* Largest number of viewer connections the relay server accepts.
MaxViewers == 3

\* The characters typed: a word character and a whitespace character.
Chars == {"a", " "}

Widths == 1..MaxWidth

VARIABLES
    buffer,     \* Editor.buffer: the lines of the document
    line,       \* Editor.line: 0-based index of the cursor's line
    column,     \* Editor.column: 0-based column of the cursor
    width,      \* Editor.width
    panicked,   \* TRUE once an operation has panicked
    op,         \* history: the operation called last ("new" after construction)
    pre,        \* history: the editor and typed as they were before that operation
    typed,      \* history: the text typed, while every operation so far was add
    arg,        \* history: the character given to the last operation when it is add
    before_add, \* history: the editor before an add, kept over the backspace after it
    viewers,    \* relay server: viewer_handler's list of viewer connections
    accepted,   \* relay server: the number of viewer connections accepted so far
    closed,     \* relay server: the viewers a write to which fails with BrokenPipe
    handler_panicked,  \* relay server: TRUE once viewer_handler has panicked
    received,   \* history: what viewer_handler received last ("none" at start)
    pre_viewers, \* history: the list of viewers before that
    failed      \* history: the viewers whose write failed with BrokenPipe then

server == <<viewers, accepted, closed, handler_panicked, received, pre_viewers, failed>>

vars == <<buffer, line, column, width, panicked, op, pre, typed, arg, before_add,
          viewers, accepted, closed, handler_panicked, received, pre_viewers, failed>>

\* ----------------------------------------------------------------- strings

RECURSIVE Concat(_)
\* The concatenation of a sequence of strings.
Concat(ss) == IF ss = <<>> THEN <<>> ELSE Head(ss) \o Concat(Tail(ss))

RECURSIVE SumLen(_)
\* The sum of the lengths of a sequence of strings.
SumLen(ss) == IF ss = <<>> THEN 0 ELSE Len(Head(ss)) + SumLen(Tail(ss))

\* char::is_whitespace, on the modelled characters.
is_whitespace(c) == c = " "

\* String::insert(idx, c) for idx <= len.
StrInsert(s, idx, c) == SubSeq(s, 1, idx) \o <<c>> \o SubSeq(s, idx + 1, Len(s))

\* String::remove(idx) for idx < len.
StrRemove(s, idx) == SubSeq(s, 1, idx) \o SubSeq(s, idx + 2, Len(s))

\* Vec::insert(idx, x) for idx <= len.
VecInsert(v, idx, x) == SubSeq(v, 1, idx) \o <<x>> \o SubSeq(v, idx + 1, Len(v))

\* --------------------------------------------------------------- word wrap

RECURSIVE RunLen(_, _)
\* The length of the maximal run at the start of s of characters whose
\* is_whitespace is ws.
RunLen(s, ws) ==
    IF s = <<>> \/ is_whitespace(Head(s)) # ws THEN 0
    ELSE 1 + RunLen(Tail(s), ws)

RECURSIVE Tokens(_)
\* The tokens of s: its maximal runs of whitespace or of non-whitespace
\* characters, left to right.
Tokens(s) ==
    IF s = <<>> THEN <<>>
    ELSE LET n == RunLen(s, is_whitespace(Head(s)))
         IN  <<SubSeq(s, 1, n)>> \o Tokens(SubSeq(s, n + 1, Len(s)))

RECURSIVE Pack_DropsGap(_, _, _, _)
\* Pack that trims the whitespace at a wrap point: a whitespace token that
\* does not fit is dropped instead of opening the next line.
Pack_DropsGap(toks, cur, out, w) ==
    IF toks = <<>> THEN Append(out, cur)
    ELSE LET t == Head(toks)
         IN  IF cur = <<>> \/ Len(cur) + Len(t) <= w
             THEN Pack_DropsGap(Tail(toks), cur \o t, out, w)
             ELSE IF is_whitespace(Head(t))
             THEN Pack_DropsGap(Tail(toks), <<>>, Append(out, cur), w)
             ELSE Pack_DropsGap(Tail(toks), t, Append(out, cur), w)

RECURSIVE Pack_Strict(_, _, _, _)
\* Pack with the fit test off by one: a token that fills the line exactly
\* is moved to the next line.
Pack_Strict(toks, cur, out, w) ==
    IF toks = <<>> THEN Append(out, cur)
    ELSE LET t == Head(toks)
         IN  IF cur = <<>> \/ Len(cur) + Len(t) < w
             THEN Pack_Strict(Tail(toks), cur \o t, out, w)
             ELSE Pack_Strict(Tail(toks), t, Append(out, cur), w)

RECURSIVE Pack(_, _, _, _)
\* Greedy accumulation of the tokens toks onto the open line cur, after the
\* closed lines out: a token joins the open line when the line is empty or
\* the token still fits in w, and otherwise closes it and opens the next.
Pack(toks, cur, out, w) ==
    IF toks = <<>> THEN Append(out, cur)
    ELSE LET t == Head(toks)
         IN  IF cur = <<>> \/ Len(cur) + Len(t) <= w
             THEN Pack(Tail(toks), cur \o t, out, w)
             ELSE Pack(Tail(toks), t, Append(out, cur), w)

RECURSIVE JoinWithSpace(_)
\* The fragments joined with a space between them.
JoinWithSpace(ss) ==
    IF ss = <<>> THEN <<>>
    ELSE IF Len(ss) = 1 THEN Head(ss)
    ELSE Head(ss) \o <<" ">> \o JoinWithSpace(Tail(ss))

\* wrap that takes the fragments for lines and joins them with spaces.
wrap_JoinsFragments(fragments, w) == Pack(Tokens(JoinWithSpace(fragments)), <<>>, <<>>, w)

\* wrap(fragments, width): the lines of the paragraph whose text is the
\* concatenation of the fragments, wrapped to width.
wrap(fragments, w) == Pack(Tokens(Concat(fragments)), <<>>, <<>>, w)

\* ------------------------------------------------------------------ editor

\* The editor as a value: the struct's fields and whether it has panicked.
Editor(b, l, c, w) == [buffer |-> b, line |-> l, column |-> c, width |-> w, panicked |-> FALSE]

\* Editor::new(width).
new(w) == Editor(<< <<>> >>, 0, 0, w)

\* The editor of the current state.
Self == [buffer |-> buffer, line |-> line, column |-> column, width |-> width,
         panicked |-> panicked]

\* A panic during an operation on e.
Panic(e) == [e EXCEPT !.panicked = TRUE]

\* Whether self.buffer[self.line] is in range.
LineInRange(e) == e.line < Len(e.buffer)

\* self.buffer[self.line], for a line in range.
CurLine(e) == e.buffer[e.line + 1]

\* Editor::render: the lines joined with "\n".
RECURSIVE Join(_)
Join(ss) ==
    IF ss = <<>> THEN <<>>
    ELSE IF Len(ss) = 1 THEN Head(ss)
    ELSE Head(ss) \o <<"\n">> \o Join(Tail(ss))

render(e) == Join(e.buffer)

\* Editor::cursor.
cursor(e) == <<e.line, e.column>>

at_start_of_line(e) == e.column = 0

\* For a line in range.
at_end_of_line(e) == Len(CurLine(e)) = e.column

at_first_line(e) == e.line = 0

at_last_line(e) == e.line = Len(e.buffer) \/ Len(e.buffer) = 1

at_start_of_buffer(e) == at_first_line(e) /\ at_start_of_line(e)

\* For a line in range whenever at_last_line holds.
at_end_of_buffer(e) == at_last_line(e) /\ at_end_of_line(e)

move_to_end_of_line(e) ==
    IF ~LineInRange(e) THEN Panic(e)
    ELSE [e EXCEPT !.column = Len(CurLine(e))]

is_line_para_separator(l) == l = <<>> \/ \A i \in 1..Len(l) : is_whitespace(l[i])

\* current_para_idx with the end off by one: the range runs up to and
\* including the separator line below the paragraph.
current_para_idx_ToSeparator(e) ==
    IF is_line_para_separator(CurLine(e)) THEN <<e.line, e.line>>
    ELSE LET above == {i \in 0..e.line : is_line_para_separator(e.buffer[i + 1])}
             below == {i \in e.line..(Len(e.buffer) - 1) :
                          is_line_para_separator(e.buffer[i + 1])}
         IN  <<IF above = {} THEN 0
               ELSE (CHOOSE i \in above : \A j \in above : j <= i) + 1,
               IF below = {} THEN Len(e.buffer) - 1
               ELSE CHOOSE i \in below : \A j \in below : i <= j>>

\* Editor::current_para_idx, for a line in range: the inclusive range
\* <<start, end>> of 0-based line indices of the cursor's paragraph.
current_para_idx(e) ==
    IF is_line_para_separator(CurLine(e)) THEN <<e.line, e.line>>
    ELSE LET above == {i \in 0..e.line : is_line_para_separator(e.buffer[i + 1])}
             below == {i \in e.line..(Len(e.buffer) - 1) :
                          is_line_para_separator(e.buffer[i + 1])}
             start_line_idx ==
                 IF above = {} THEN 0
                 ELSE (CHOOSE i \in above : \A j \in above : j <= i) + 1
             end_line_idx ==
                 IF below = {} THEN Len(e.buffer) - 1
                 ELSE (CHOOSE i \in below : \A j \in below : i <= j) - 1
         IN  <<start_line_idx, end_line_idx>>

RECURSIVE WalkWrapped_StartOfNext(_, _, _, _, _)
\* The walk with the other tie-break: an offset on the boundary between two
\* wrapped lines goes to column 0 of the later line.
WalkWrapped_StartOfNext(wrapped, i, stepped, new_line, pos) ==
    IF i > Len(wrapped) THEN <<new_line, 0>>
    ELSE IF pos < stepped + Len(wrapped[i]) \/ i = Len(wrapped)
    THEN <<new_line, pos - stepped>>
    ELSE WalkWrapped_StartOfNext(wrapped, i + 1, stepped + Len(wrapped[i]),
                                 new_line + 1, pos)

RECURSIVE WalkWrapped(_, _, _, _, _)
\* The loop 'outer of rewrap_current_para from its i-th iteration on, with
\* bytes_stepped = stepped at the top of that iteration: the <<new_line,
\* new_column>> it ends with.
WalkWrapped(wrapped, i, stepped, new_line, pos) ==
    IF i > Len(wrapped) THEN <<new_line, 0>>
    ELSE IF stepped = pos THEN <<new_line, 0>>
    ELSE LET n == Len(wrapped[i])
         IN  IF stepped < pos /\ pos <= stepped + n
             THEN <<new_line, pos - stepped>>
             ELSE WalkWrapped(wrapped, i + 1, stepped + n, new_line + 1, pos)

\* ReplacePara with the insertion loop starting one line late: the first
\* wrapped line is lost.
ReplacePara_SkipsFirst(b, start, end, wrapped) ==
    SubSeq(b, 1, start) \o Tail(wrapped) \o SubSeq(b, end + 2, Len(b))

\* The end of rewrap_current_para: the paragraph's lines are drained from
\* the buffer and the wrapped lines inserted at its start.
ReplacePara(b, start, end, wrapped) ==
    SubSeq(b, 1, start) \o wrapped \o SubSeq(b, end + 2, Len(b))

\* Editor::rewrap_current_para, for a line in range.
rewrap_current_para(e) ==
    LET idx == current_para_idx(e)
        start == idx[1]
        end == idx[2]
        wrapped == wrap(SubSeq(e.buffer, start + 1, end + 1), e.width)
        current_pos_in_para == SumLen(SubSeq(e.buffer, start + 1, e.line)) + e.column
        at == WalkWrapped(wrapped, 1, 0, start, current_pos_in_para)
    IN  [e EXCEPT !.line = at[1], !.column = at[2],
                  !.buffer = ReplacePara(e.buffer, start, end, wrapped)]

\* resize that also re-wraps the cursor's paragraph at the new width.
resize_rewraps(e, w) ==
    IF ~LineInRange(e) THEN Panic(e)
    ELSE rewrap_current_para([e EXCEPT !.width = w])

\* Editor::resize.
resize(e, w) == [e EXCEPT !.width = w]

\* add without the call to rewrap_current_para.
add_without_rewrap(e, c) ==
    IF ~LineInRange(e) THEN Panic(e)
    ELSE IF at_end_of_line(e)
    THEN [e EXCEPT !.buffer[e.line + 1] = Append(CurLine(e), c),
                   !.column = e.column + 1]
    ELSE IF e.column > Len(CurLine(e)) THEN Panic(e)
    ELSE [e EXCEPT !.buffer[e.line + 1] = StrInsert(CurLine(e), e.column, c),
                   !.column = e.column + 1]

\* Editor::add.
add(e, c) ==
    IF ~LineInRange(e) THEN Panic(e)
    ELSE IF at_end_of_line(e)
    THEN rewrap_current_para(
             [e EXCEPT !.buffer[e.line + 1] = Append(CurLine(e), c),
                       !.column = e.column + 1])
    ELSE IF e.column > Len(CurLine(e)) THEN Panic(e)
    ELSE rewrap_current_para(
             [e EXCEPT !.buffer[e.line + 1] = StrInsert(CurLine(e), e.column, c),
                       !.column = e.column + 1])

\* Editor::backspace.
backspace(e) ==
    IF at_start_of_line(e) THEN e
    ELSE IF ~LineInRange(e) THEN Panic(e)
    ELSE IF e.column - 1 >= Len(CurLine(e)) THEN Panic(e)
    ELSE rewrap_current_para(
             [e EXCEPT !.buffer[e.line + 1] = StrRemove(CurLine(e), e.column - 1),
                       !.column = e.column - 1])

\* enter that re-wraps the paragraph of the new line after the split.
enter_rewraps(e) ==
    IF ~LineInRange(e) THEN Panic(e)
    ELSE IF e.column > Len(CurLine(e)) THEN Panic(e)
    ELSE rewrap_current_para(
             [e EXCEPT !.buffer = VecInsert([e.buffer EXCEPT ![e.line + 1] =
                                                 SubSeq(CurLine(e), 1, e.column)],
                                            e.line + 1,
                                            SubSeq(CurLine(e), e.column + 1, Len(CurLine(e)))),
                       !.line = e.line + 1,
                       !.column = 0])

\* Editor::enter.
enter(e) ==
    IF ~LineInRange(e) THEN Panic(e)
    ELSE IF e.column > Len(CurLine(e)) THEN Panic(e)
    ELSE LET after_cursor == SubSeq(CurLine(e), e.column + 1, Len(CurLine(e)))
             before_cursor == SubSeq(CurLine(e), 1, e.column)
         IN  [e EXCEPT !.buffer = VecInsert([e.buffer EXCEPT ![e.line + 1] = before_cursor],
                                            e.line + 1, after_cursor),
                       !.line = e.line + 1,
                       !.column = 0]

\* Editor::move_left.
move_left(e) ==
    IF at_start_of_buffer(e) THEN e
    ELSE IF at_start_of_line(e)
    THEN move_to_end_of_line([e EXCEPT !.line = e.line - 1])
    ELSE [e EXCEPT !.column = e.column - 1]

\* Editor::move_right.
move_right(e) ==
    IF at_last_line(e) /\ ~LineInRange(e) THEN Panic(e)
    ELSE IF at_end_of_buffer(e) THEN e
    ELSE IF ~LineInRange(e) THEN Panic(e)
    ELSE IF at_end_of_line(e) THEN [e EXCEPT !.line = e.line + 1, !.column = 0]
    ELSE [e EXCEPT !.column = e.column + 1]

\* move_up that re-wraps the paragraph it lands in, as the editing
\* operations do.
move_up_rewraps(e) ==
    IF at_first_line(e) THEN [e EXCEPT !.column = 0]
    ELSE rewrap_current_para([e EXCEPT !.line = e.line - 1])

\* Editor::move_up.
move_up(e) ==
    IF at_first_line(e) THEN [e EXCEPT !.column = 0]
    ELSE [e EXCEPT !.line = e.line - 1]

\* Editor::move_down.
move_down(e) ==
    IF at_last_line(e) THEN move_to_end_of_line(e)
    ELSE [e EXCEPT !.line = e.line + 1]

\* ----------------------------------------------------------- state machine

\* The text typed so far, while every operation since new has been an add.
Typing(t) == [only_adds |-> TRUE, text |-> t]

\* Some operation other than add has been called.
NotTyping == [only_adds |-> FALSE, text |-> <<>>]

\* The editor of the current state together with the text typed.
Snapshot == [buffer |-> buffer, line |-> line, column |-> column, width |-> width,
             panicked |-> panicked, typed |-> typed]

\* The state after an operation named o took the editor to the value r; a
\* panicking operation leaves the fields as they were.
Becomes(o, r, t) ==
    /\ UNCHANGED server
    /\ op' = o
    /\ pre' = Snapshot
    /\ typed' = t
    /\ panicked' = r.panicked
    /\ IF r.panicked
       THEN UNCHANGED <<buffer, line, column, width>>
       ELSE /\ buffer' = r.buffer
            /\ line' = r.line
            /\ column' = r.column
            /\ width' = r.width

\* viewer_handler as it starts: no viewer yet. The editor's process runs
\* no relay server, so there these variables keep this value.
NoViewers ==
    /\ viewers = <<>>
    /\ accepted = 0
    /\ closed = {}
    /\ handler_panicked = FALSE
    /\ received = "none"
    /\ pre_viewers = <<>>
    /\ failed = {}

\* No add has just been called.
NoAdd == [some |-> FALSE, buffer |-> <<>>, line |-> 0, column |-> 0]

\* The editor of the current state, about to be given to add.
BeforeAdd == [some |-> TRUE, buffer |-> buffer, line |-> line, column |-> column]

\* The history of the call's argument and of the add that came just before.
Notes(a, u) == arg' = a /\ before_add' = u

Init ==
    /\ \E w \in Widths :
         /\ buffer = new(w).buffer
         /\ line = new(w).line
         /\ column = new(w).column
         /\ width = new(w).width
         /\ pre = [buffer |-> new(w).buffer, line |-> new(w).line,
                   column |-> new(w).column, width |-> new(w).width,
                   panicked |-> FALSE, typed |-> Typing(<<>>)]
    /\ panicked = FALSE
    /\ op = "new"
    /\ typed = Typing(<<>>)
    /\ arg = ""
    /\ before_add = NoAdd
    /\ NoViewers

Add(c) ==
    /\ ~panicked
    /\ SumLen(buffer) < MaxChars
    /\ Len(add(Self, c).buffer) <= MaxLines
    /\ Becomes("add", add(Self, c),
               IF typed.only_adds THEN Typing(Append(typed.text, c)) ELSE NotTyping)
    /\ Notes(c, BeforeAdd)

Backspace ==
    /\ ~panicked
    /\ Becomes("backspace", backspace(Self), NotTyping)
    /\ Notes("", IF op = "add" THEN before_add ELSE NoAdd)

Enter ==
    /\ ~panicked
    /\ Len(buffer) < MaxLines
    /\ Becomes("enter", enter(Self), NotTyping)
    /\ Notes("", NoAdd)

MoveLeft ==
    /\ ~panicked
    /\ Becomes("move_left", move_left(Self), NotTyping)
    /\ Notes("", NoAdd)

MoveRight ==
    /\ ~panicked
    \* the column is an unbounded usize: past the end of a line move_right
    \* is taken only up to column MaxChars
    /\ move_right(Self).column <= MaxChars
    /\ Becomes("move_right", move_right(Self), NotTyping)
    /\ Notes("", NoAdd)

MoveUp ==
    /\ ~panicked
    /\ Becomes("move_up", move_up(Self), NotTyping)
    /\ Notes("", NoAdd)

MoveDown ==
    /\ ~panicked
    /\ Becomes("move_down", move_down(Self), NotTyping)
    /\ Notes("", NoAdd)

Resize(w) ==
    /\ ~panicked
    /\ Becomes("resize", resize(Self, w), NotTyping)
    /\ Notes("", NoAdd)

Next ==
    \/ \E c \in Chars : Add(c)
    \/ Backspace
    \/ Enter
    \/ MoveLeft
    \/ MoveRight
    \/ MoveUp
    \/ MoveDown
    \/ \E w \in Widths : Resize(w)

Spec == Init /\ [][Next]_vars

\* ------------------------------------------------- word wrap on its own

RECURSIVE StringsOfLen(_)
\* The strings of n characters.
StringsOfLen(n) ==
    IF n = 0 THEN {<<>>}
    ELSE {Append(t, c) : t \in StringsOfLen(n - 1), c \in Chars}

RECURSIVE Fragments(_, _)
\* The sequences of at most k fragments holding at most n characters.
Fragments(k, n) ==
    IF k = 0 THEN {<<>>}
    ELSE {<<>>} \cup
         UNION {{<<f>> \o rest : rest \in Fragments(k - 1, n - Len(f))} :
                    f \in UNION {StringsOfLen(m) : m \in 0..n}}

\* The word wrap applied to given fragments: buffer holds the fragments
\* (op = "fragments"), then the lines wrap makes of them (op = "wrap"), then
\* the lines wrap makes of those lines (op = "rewrap"); pre holds what wrap
\* was applied to.
WrapInit ==
    /\ buffer \in Fragments(MaxLines, MaxChars)
    /\ width \in Widths
    /\ line = 0
    /\ column = 0
    /\ panicked = FALSE
    /\ op = "fragments"
    /\ pre = [buffer |-> <<>>, line |-> 0, column |-> 0, width |-> width,
              panicked |-> FALSE, typed |-> NotTyping]
    /\ typed = NotTyping
    /\ arg = ""
    /\ before_add = NoAdd
    /\ NoViewers

WrapStep ==
    /\ op \in {"fragments", "wrap"}
    /\ buffer' = wrap(buffer, width)
    /\ op' = IF op = "fragments" THEN "wrap" ELSE "rewrap"
    /\ pre' = Snapshot
    /\ UNCHANGED <<line, column, width, panicked, typed, arg, before_add>>
    /\ UNCHANGED server

WrapNext == WrapStep

WrapSpec == WrapInit /\ [][WrapNext]_vars

\* ---------------------------------------------------------- relay server

\* Vec::remove, for an index in range: the vector without its element at
\* 0-based index i, the later elements shifted down.
VecRemove(v, i) == SubSeq(v, 1, i) \o SubSeq(v, i + 2, Len(v))

RECURSIVE closed_viewers(_, _, _)
\* The closed_viewers vector of the events_rx closure: the 0-based indices,
\* in the order of the enumeration from index i on, of the viewers a write
\* to which fails with BrokenPipe. A write that succeeds, or fails with
\* another error (which is printed), pushes nothing.
closed_viewers(vs, broken, i) ==
    IF i >= Len(vs) THEN <<>>
    ELSE (IF vs[i + 1] \in broken THEN <<i>> ELSE <<>>)
             \o closed_viewers(vs, broken, i + 1)

RECURSIVE RemoveEach(_, _)
\* `for idx in closed_viewers { viewers.remove(idx); }`: each index is
\* removed from the vector as the removals before it have left it;
\* Vec::remove panics on an index that is not below the length.
RemoveEach(vs, idxs) ==
    IF idxs = <<>> THEN [viewers |-> vs, panicked |-> FALSE]
    ELSE IF Head(idxs) >= Len(vs) THEN [viewers |-> vs, panicked |-> TRUE]
    ELSE RemoveEach(VecRemove(vs, Head(idxs)), Tail(idxs))

\* The events_rx closure of viewer_handler, on the list vs.
broadcast(vs, broken) == RemoveEach(vs, closed_viewers(vs, broken, 0))

\* The relay server runs no editor: the editor's variables keep the value
\* of a new editor.
NoEditor ==
    /\ buffer = new(1).buffer
    /\ line = new(1).line
    /\ column = new(1).column
    /\ width = new(1).width
    /\ panicked = FALSE
    /\ op = "new"
    /\ pre = [buffer |-> new(1).buffer, line |-> new(1).line,
              column |-> new(1).column, width |-> new(1).width,
              panicked |-> FALSE, typed |-> NotTyping]
    /\ typed = NotTyping
    /\ arg = ""
    /\ before_add = NoAdd

editor == <<buffer, line, column, width, panicked, op, pre, typed, arg, before_add>>

ServerInit == NoEditor /\ NoViewers

\* The viewer_rx closure: a new viewer connection is pushed onto the list.
\* Connections are numbered in the order they are accepted.
RecvViewer ==
    /\ ~handler_panicked
    /\ accepted < MaxViewers
    /\ accepted' = accepted + 1
    /\ viewers' = Append(viewers, accepted + 1)
    /\ received' = "viewer"
    /\ pre_viewers' = viewers
    /\ failed' = {}
    /\ UNCHANGED <<closed, handler_panicked>>
    /\ UNCHANGED editor

\* A viewer in the list goes away: from now on a write to its connection
\* fails with BrokenPipe.
ViewerCloses(v) ==
    /\ ~handler_panicked
    /\ \E i \in 1..Len(viewers) : viewers[i] = v
    /\ v \notin closed
    /\ closed' = closed \cup {v}
    /\ UNCHANGED <<viewers, accepted, handler_panicked, received, pre_viewers, failed>>
    /\ UNCHANGED editor

\* The events_rx closure: the event is written to every viewer and the
\* viewers whose write failed with BrokenPipe are removed.
RecvEvent ==
    /\ ~handler_panicked
    /\ viewers' = broadcast(viewers, closed).viewers
    /\ handler_panicked' = broadcast(viewers, closed).panicked
    /\ received' = "event"
    /\ pre_viewers' = viewers
    /\ failed' = {viewers[i] : i \in {j \in 1..Len(viewers) : viewers[j] \in closed}}
    /\ UNCHANGED <<accepted, closed>>
    /\ UNCHANGED editor

ServerNext ==
    \/ RecvViewer
    \/ \E v \in 1..MaxViewers : ViewerCloses(v)
    \/ RecvEvent

ServerSpec == ServerInit /\ [][ServerNext]_vars

\* --------------------------------------------------------------- claims

\* The cursor of e is valid: its line is a line of the document and its
\* column is in [0, length of that line].
CursorValid(e) == e.line < Len(e.buffer) /\ e.column <= Len(e.buffer[e.line + 1])

\* Lines s..e (0-based, inclusive) of b are a paragraph: a maximal run of
\* lines that are not separator lines.
IsPara(b, s, e) ==
    /\ 0 <= s /\ s <= e /\ e < Len(b)
    /\ \A i \in s..e : ~is_line_para_separator(b[i + 1])
    /\ s = 0 \/ is_line_para_separator(b[s])
    /\ e = Len(b) - 1 \/ is_line_para_separator(b[e + 2])

\* Every paragraph of b is laid out as the word wrap of its text at width w.
ParagraphsWrapped(b, w) ==
    \A s \in 0..(Len(b) - 1) : \A e \in s..(Len(b) - 1) :
        IsPara(b, s, e) => SubSeq(b, s + 1, e + 1) = wrap(SubSeq(b, s + 1, e + 1), w)

\* The cursor's logical offset within its paragraph, for a line in range.
ParaOffset(e) ==
    SumLen(SubSeq(e.buffer, current_para_idx(e)[1] + 1, e.line)) + e.column

\* The cursor's offset in the text of the whole document.
DocOffset(e) == SumLen(SubSeq(e.buffer, 1, e.line)) + e.column

NavigationOps == {"move_left", "move_right", "move_up", "move_down"}

\* C1: after any sequence of public operations from Editor::new(width) the
\* cursor is valid: its line index is below the number of lines and its
\* column is at most the length of that line.
C1_CursorAlwaysValid == CursorValid(Self)

\* C2: every public operation is total: in every reachable state each
\* operation completes without failing (no operation ever panics).
C2_OperationsTotal == ~panicked

\* C3: the document always holds at least one line: construction gives
\* exactly one empty line with the cursor at (0,0), and no operation ever
\* leaves it with zero lines.
C3_AtLeastOneLine ==
    /\ Len(buffer) >= 1
    /\ op = "new" => buffer = << <<>> >> /\ line = 0 /\ column = 0

\* C3 witness: backspace has removed the only character of the document and
\* the emptied paragraph has been re-wrapped into a single empty line.
C3_Witness ==
    /\ op = "backspace" /\ ~panicked
    /\ pre.buffer = << <<"a">> >> /\ pre.column = 1
    /\ buffer = << <<>> >>

\* C4: resize(w) stores w and re-wraps every paragraph against it: after
\* resize(w) each paragraph's lines are the word wrap of its text at width
\* w, and the cursor's logical offset within its paragraph is unchanged.
C4_ResizeRewrapsAll ==
    (op = "resize" /\ CursorValid(pre)) =>
        /\ ~panicked
        /\ ParagraphsWrapped(buffer, width)
        /\ CursorValid(Self)
        /\ ParaOffset(Self) = ParaOffset(pre)

\* C5: widening merges wrapped lines: after a text without line breaks is
\* typed one character at a time into an empty editor and the width is then
\* resized to at least the text's length, the document is the text on a
\* single line.
C5_WideningMerges ==
    (op = "resize" /\ pre.typed.only_adds /\ width >= Len(pre.typed.text)) =>
        buffer = <<pre.typed.text>>

\* C6: backspace is a no-op at (0,0); in every other reachable state it
\* removes exactly one character, the one immediately before the cursor,
\* and the cursor's position moves back by one.
C6_Backspace ==
    op = "backspace" =>
        IF pre.line = 0 /\ pre.column = 0
        THEN render(Self) = render(pre) /\ cursor(Self) = cursor(pre)
        ELSE /\ ~panicked
             /\ SumLen(buffer) = SumLen(pre.buffer) - 1
             /\ Concat(buffer) = StrRemove(Concat(pre.buffer), DocOffset(pre) - 1)
             /\ DocOffset(Self) = DocOffset(pre) - 1

\* C7: move_down on the last line (index = number of lines - 1) of a
\* document of any number of lines keeps the line index and sets the column
\* to that line's length; on any other line it adds one to the line index.
C7_MoveDown ==
    (op = "move_down" /\ CursorValid(pre)) =>
        /\ ~panicked
        /\ IF pre.line = Len(pre.buffer) - 1
           THEN line = pre.line /\ column = Len(pre.buffer[pre.line + 1])
           ELSE line = pre.line + 1

\* C8: move_left from column 0 of a line other than the first goes to the
\* end of the previous line and is a no-op at (0,0); move_right from the end
\* of a line other than the last goes to column 0 of the next line and is a
\* no-op at the end of the last line, for documents of any number of lines;
\* otherwise each moves the column by exactly one.
C8_MoveLeftRight ==
    /\ (op = "move_left" /\ CursorValid(pre)) =>
          /\ ~panicked
          /\ cursor(Self) =
                IF pre.column = 0 /\ pre.line > 0
                THEN <<pre.line - 1, Len(pre.buffer[pre.line])>>
                ELSE IF pre.column = 0 THEN <<0, 0>>
                ELSE <<pre.line, pre.column - 1>>
    /\ (op = "move_right" /\ CursorValid(pre)) =>
          /\ ~panicked
          /\ cursor(Self) =
                IF pre.column = Len(pre.buffer[pre.line + 1])
                   /\ pre.line < Len(pre.buffer) - 1
                THEN <<pre.line + 1, 0>>
                ELSE IF pre.column = Len(pre.buffer[pre.line + 1])
                THEN <<pre.line, pre.column>>
                ELSE <<pre.line, pre.column + 1>>

\* C9: pure navigation never changes the document: a move_left, move_right,
\* move_up or move_down leaves the sequence of lines (render) and the width
\* as they were, so any sequence of them does.
C9_NavigationKeepsDocument ==
    op \in NavigationOps =>
        /\ buffer = pre.buffer
        /\ render(Self) = render(pre)
        /\ width = pre.width

\* C9 witness: a navigation has moved the cursor within a document of
\* several lines whose layout is not the word wrap of its paragraphs.
C9_Witness ==
    /\ op \in NavigationOps /\ ~panicked
    /\ cursor(Self) # cursor(pre)
    /\ Len(buffer) >= 2
    /\ ~ParagraphsWrapped(buffer, width)

\* C10: from any reachable state, resize(w) with w equal to the current
\* width leaves both render() and cursor() unchanged.
C10_ResizeSameWidth ==
    (op = "resize" /\ width = pre.width) =>
        /\ render(Self) = render(pre)
        /\ buffer = pre.buffer
        /\ cursor(Self) = cursor(pre)

\* C10 witness: resize was called with the current width on a document that
\* enter has left in a layout a re-wrap would change.
C10_Witness ==
    /\ op = "resize" /\ ~panicked
    /\ width = pre.width
    /\ CursorValid(Self)
    /\ ~ParagraphsWrapped(buffer, width)

\* The editor as add or backspace (the last operation, called on a valid
\* cursor and past its early return) hands it to rewrap_current_para: the
\* character inserted or removed, the column moved, nothing re-wrapped yet.
BeforeRewrap ==
    IF op = "add"
    THEN [buffer |-> [pre.buffer EXCEPT ![pre.line + 1] = StrInsert(@, pre.column, arg)],
          line |-> pre.line, column |-> pre.column + 1, width |-> pre.width,
          panicked |-> FALSE]
    ELSE [buffer |-> [pre.buffer EXCEPT ![pre.line + 1] = StrRemove(@, pre.column - 1)],
          line |-> pre.line, column |-> pre.column - 1, width |-> pre.width,
          panicked |-> FALSE]

\* The first and last line index (0-based) of the range that call re-wraps.
RewrapStart == current_para_idx(BeforeRewrap)[1]
RewrapEnd == current_para_idx(BeforeRewrap)[2]

\* The number of lines the re-wrap put in place of that range.
RewrapCount == Len(buffer) - Len(pre.buffer) + (RewrapEnd - RewrapStart + 1)

\* The lines of b from index s to index e (0-based, inclusive).
Lines(b, s, e) == SubSeq(b, s + 1, e + 1)

\* The last operation was an add or a backspace that re-wrapped.
Rewrapped ==
    /\ op \in {"add", "backspace"} /\ ~panicked
    /\ CursorValid(pre)
    /\ op = "backspace" => pre.column > 0

\* C11: add(c) from any reachable state inserts exactly one character at the
\* cursor: the text of the cursor's paragraph (the range add re-wraps) is
\* the text before with c inserted at the cursor's logical offset, and the
\* cursor's logical offset afterwards is the old one plus one, just after c.
C11_AddInsertsAtCursor ==
    op = "add" =>
        /\ ~panicked
        /\ LET old_offset == SumLen(Lines(pre.buffer, RewrapStart, pre.line - 1)) + pre.column
           IN  /\ Concat(Lines(buffer, RewrapStart, RewrapStart + RewrapCount - 1))
                    = StrInsert(Concat(Lines(pre.buffer, RewrapStart, RewrapEnd)),
                                old_offset, arg)
               /\ RewrapStart <= line /\ line < RewrapStart + RewrapCount
               /\ SumLen(Lines(buffer, RewrapStart, line - 1)) + column = old_offset + 1
               /\ column >= 1 /\ buffer[line + 1][column] = arg

C14_BackspaceUndoesAdd ==
    /\ op = "add" => ~panicked
    /\ (op = "backspace" /\ before_add.some) =>
          /\ ~panicked
          /\ render(Self) = Join(before_add.buffer)
          /\ cursor(Self) = <<before_add.line, before_add.column>>

\* C15: the cursor follows inserted text across a wrap: in an empty editor
\* of width w, after w non-whitespace characters are inserted the cursor is
\* (0, w), and after one more non-whitespace character it is (1, 1).
C15_CursorFollowsWrap ==
    (typed.only_adds /\ \A i \in 1..Len(typed.text) : ~is_whitespace(typed.text[i])) =>
        /\ Len(typed.text) = width => cursor(Self) = <<0, width>>
        /\ Len(typed.text) = width + 1 => cursor(Self) = <<1, 1>>

\* The characters of s are all whitespace or all non-whitespace.
OneToken(s) == \A i \in 1..Len(s) : is_whitespace(s[i]) = is_whitespace(s[1])

\* C16: word wrap is lossless: for any fragments and any width >= 1 the
\* output is a non-empty sequence of lines whose concatenation is exactly
\* the concatenation of the fragments; empty text gives one empty line.
C16_WrapLossless ==
    op \in {"wrap", "rewrap"} =>
        /\ Len(buffer) >= 1
        /\ Concat(buffer) = Concat(pre.buffer)
        /\ Concat(pre.buffer) = <<>> => buffer = << <<>> >>

\* C16 witness: wrap was applied to several fragments and gave several
\* lines that are not the fragments.
C16_Witness ==
    /\ op = "wrap"
    /\ Len(pre.buffer) >= 2 /\ Len(buffer) >= 2
    /\ buffer # pre.buffer

C18_RewrapIdempotent ==
    op = "rewrap" => buffer = pre.buffer

\* C18 witness: lines that wrap produced, several of them, have been
\* wrapped again at the same width.
C18_Witness ==
    /\ op = "rewrap"
    /\ Len(pre.buffer) >= 2
    /\ \E i \in 1..Len(pre.buffer) : Len(pre.buffer[i]) >= 2

\* The cursor's logical offset in the range the last add or backspace
\* re-wrapped, as rewrap_current_para computed it before re-wrapping.
RewrapOffset ==
    SumLen(Lines(BeforeRewrap.buffer, RewrapStart, BeforeRewrap.line - 1))
        + BeforeRewrap.column

\* C19: cursor remapping in re-wrap: the cursor keeps its logical offset in
\* the re-wrapped lines; an offset that falls on the boundary between two
\* wrapped lines puts it at the end of the earlier line, never at column 0
\* of the later one; offset 0 puts it at column 0 of the first line.
C19_CursorTieBreak ==
    Rewrapped =>
        /\ RewrapStart <= line /\ line < RewrapStart + RewrapCount
        /\ column <= Len(buffer[line + 1])
        /\ SumLen(Lines(buffer, RewrapStart, line - 1)) + column = RewrapOffset
        /\ RewrapOffset = 0 => line = RewrapStart /\ column = 0
        /\ RewrapOffset > 0 => column > 0

\* C19 witness: after an add or backspace the cursor's offset is on the
\* boundary between two lines of the re-wrapped range, and the cursor is at
\* the end of the earlier one.
C19_Witness ==
    /\ Rewrapped
    /\ line + 1 < RewrapStart + RewrapCount
    /\ column > 0 /\ column = Len(buffer[line + 1])

\* C20: add and backspace change only the paragraph containing the cursor:
\* the re-wrapped range contains the cursor's line, contains no separator
\* line unless it is a single separator line, and every line outside the
\* range keeps its content and its order.
C20_OnlyCursorParagraph ==
    Rewrapped =>
        /\ RewrapStart <= BeforeRewrap.line /\ BeforeRewrap.line <= RewrapEnd
        /\ RewrapEnd < Len(pre.buffer)
        /\ (\E i \in RewrapStart..RewrapEnd : is_line_para_separator(BeforeRewrap.buffer[i + 1]))
              => RewrapStart = RewrapEnd
        /\ RewrapCount >= 1
        /\ Lines(buffer, 0, RewrapStart - 1) = Lines(pre.buffer, 0, RewrapStart - 1)
        /\ Lines(buffer, RewrapStart + RewrapCount, Len(buffer) - 1)
              = Lines(pre.buffer, RewrapEnd + 1, Len(pre.buffer) - 1)

\* C20 witness: an add or backspace has re-wrapped a range into a different
\* number of lines, in a document with a non-empty line outside the range.
C20_Witness ==
    /\ Rewrapped
    /\ RewrapCount # RewrapEnd - RewrapStart + 1
    /\ \/ RewrapStart > 0 /\ SumLen(Lines(pre.buffer, 0, RewrapStart - 1)) > 0
       \/ /\ RewrapEnd < Len(pre.buffer) - 1
          /\ SumLen(Lines(pre.buffer, RewrapEnd + 1, Len(pre.buffer) - 1)) > 0

\* C21: width bound on the whole document: after any sequence of public
\* operations including resize, every line of the document either has
\* length <= the current width or is a single token (one maximal run of
\* non-whitespace or of whitespace characters).
C21_WidthBound ==
    \A i \in 1..Len(buffer) : Len(buffer[i]) <= width \/ OneToken(buffer[i])

\* The viewers of a list whose write did not fail with BrokenPipe in the
\* last broadcast, in the list's order.
LiveViewers(vs) == SelectSeq(vs, LAMBDA v : v \notin failed)

\* C22: relay server viewer bookkeeping: when an event is broadcast, the
\* viewers afterwards are exactly the viewers before minus those whose write
\* failed with a broken pipe, for any number and any positions of failed
\* viewers in the list, and the handler does not fail while removing them.
C22_ViewersPruned ==
    received = "event" =>
        /\ ~handler_panicked
        /\ viewers = LiveViewers(pre_viewers)

====
